---- MODULE Spec2Model ----
(***************************************************************************)
(* Scan pipeline of the QR attendance scanner.                             *)
(*                                                                         *)
(*   scanner/qr_scanner.py  QRScanner: the acquisition loop (run), the     *)
(*                          dedup gate and the record-then-validate        *)
(*                          protocol (process_token, record_scan_api,      *)
(*                          validate_token_api), the display state.        *)
(*   lector_qr.py           es_codigo_rechazado (local policy filter) and  *)
(*                          the single-byte actuator protocol.             *)
(*                                                                         *)
(* Strings are sequences of one-character strings, python dicts are        *)
(* records whose DOMAIN is the set of keys present, an Optional value is   *)
(* the empty sequence (None) or a one-element sequence.                    *)
(***************************************************************************)
EXTENDS Integers, Sequences, FiniteSets, TLC

\* ------------------------------------------------------------------ bounds
\* a run lasts at most MaxTime units of the wall clock
MaxTime == 4
\* at most MaxScans decoded payloads are handed to process_token in one run
MaxScans == 3

\* ------------------------------------------------------- python primitives
None == <<>>
Some(v) == <<v>>

\* dict.get(key, default)
Get(d, key, default) == IF key \in DOMAIN d THEN d[key] ELSE default

\* truthiness of dict.get(key) for a key that holds a JSON boolean when present
Truthy(d, key) == key \in DOMAIN d /\ d[key] = TRUE

LowerChars == <<"a", "b", "e", "f", "g", "i", "j", "m", "n", "p", "w", "x", "z">>
UpperChars == <<"A", "B", "E", "F", "G", "I", "J", "M", "N", "P", "W", "X", "Z">>
Whitespace == {" ", "\t", "\n"}

\* str.upper() on one character
UpperChar(c) ==
    IF \E i \in DOMAIN LowerChars : LowerChars[i] = c
    THEN UpperChars[CHOOSE i \in DOMAIN LowerChars : LowerChars[i] = c]
    ELSE c

\* str.lower() on one character
LowerChar(c) ==
    IF \E i \in DOMAIN UpperChars : UpperChars[i] = c
    THEN LowerChars[CHOOSE i \in DOMAIN UpperChars : UpperChars[i] = c]
    ELSE c

upper(s) == [i \in DOMAIN s |-> UpperChar(s[i])]
lower(s) == [i \in DOMAIN s |-> LowerChar(s[i])]

\* str.strip(): drops leading and trailing whitespace
strip(s) ==
    LET keep == {i \in DOMAIN s : s[i] \notin Whitespace}
    IN  IF keep = {} THEN <<>>
        ELSE LET lo == CHOOSE i \in keep : \A j \in keep : i <= j
                 hi == CHOOSE i \in keep : \A j \in keep : j <= i
             IN  SubSeq(s, lo, hi)

\* str.startswith(prefix)
startswith(s, prefix) ==
    /\ Len(prefix) <= Len(s)
    /\ SubSeq(s, 1, Len(prefix)) = prefix

\* the python operator `sub in s` on strings
contains(s, sub) ==
    \E i \in 1..(Len(s) - Len(sub) + 1) : SubSeq(s, i, i + Len(sub) - 1) = sub

\* ------------------------------------------------------ local policy filter
WIFI_PREFIX == <<"W", "I", "F", "I", ":">>

extensiones_imagen ==
    << <<".", "j", "p", "g">>, <<".", "j", "p", "e", "g">>, <<".", "p", "n", "g">>,
       <<".", "g", "i", "f">>, <<".", "b", "m", "p">>, <<".", "w", "e", "b", "p">> >>

\* a filter that forgets to trim the payload before the prefix test
es_codigo_rechazado_no_strip(data) ==
    \/ startswith(upper(data), WIFI_PREFIX)
    \/ \E k \in DOMAIN extensiones_imagen : contains(lower(data), extensiones_imagen[k])

es_codigo_rechazado(data) ==
    \/ startswith(upper(strip(data)), WIFI_PREFIX)
    \/ \E k \in DOMAIN extensiones_imagen : contains(lower(data), extensiones_imagen[k])

\* ---------------------------------------------------------------- payloads
P_EMP   == <<"E", "M", "P", "-", "1">>
P_WIFI  == <<" ", "w", "i", "F", "i", ":", "g">>
P_PNG   == <<"a", ".", "P", "n", "G", "z">>

\* the non-empty strings the QR decoder hands to the loop
Payloads == {P_EMP, P_WIFI, P_PNG}

\* --------------------------------------------------------- result of a scan
\* dataclass TokenValidation (valid, message, estado, first_scan)
TokenValidation(valid, message, estado, first_scan) ==
    [valid |-> valid, message |-> message, estado |-> estado, first_scan |-> first_scan]

\* ------------------------------------------------- what the remote can answer
\* bodies of a 200 answer of POST /tokens/{token}/record_scan that are objects
RecordBodies ==
    { [success |-> TRUE, is_first_scan |-> TRUE, message |-> "Asistencia registrada"],
      [success |-> TRUE, is_first_scan |-> FALSE, message |-> "Asistencia registrada"],
      [success |-> TRUE],
      [success |-> FALSE, message |-> "Token no encontrado"],
      [success |-> FALSE],
      [message |-> "Asistencia registrada"] }

\* outcomes of requests.post(...) followed by response.json()
RecordOutcomes ==
    { [kind |-> "status", code |-> 500],
      [kind |-> "timeout"],
      [kind |-> "connection"],
      [kind |-> "badjson"],
      [kind |-> "nonobject"] }
    \cup { [kind |-> "json", body |-> b] : b \in RecordBodies }

\* values of token_data.estado the remote may send: the states of a token, and
\* strings the client gives a meaning of its own (the field is copied unchecked)
RemoteEstados ==
    {"ACTIVO", "EXPIRADO", "INACTIVO_O_NO_EXISTE", "ASISTENCIA_REGISTRADA",
     "ERROR_ASISTENCIA"}

\* bodies of a 200 answer of GET /tokens/{token}/validate that are objects
ValidateBodies ==
    { [valid |-> TRUE, message |-> "Token valido", token_data |-> [estado |-> "ACTIVO"],
       first_scan |-> TRUE],
      [valid |-> TRUE, message |-> "Token valido", token_data |-> [estado |-> "ACTIVO"],
       first_scan |-> FALSE],
      [valid |-> TRUE],
      [valid |-> FALSE, message |-> "Token no valido"],
      [message |-> "Token valido", token_data |-> [empleado_id |-> "7"]] }
    \cup { [valid |-> FALSE, message |-> "Token no valido", token_data |-> [estado |-> e]] :
             e \in RemoteEstados \ {"ACTIVO"} }

\* outcomes of requests.get(...) followed by response.json(); "tokendata" is a 200
\* object whose token_data is a non-empty value that is no object
ValidateOutcomes ==
    { [kind |-> "status", code |-> 500],
      [kind |-> "timeout"],
      [kind |-> "connection"],
      [kind |-> "badjson"],
      [kind |-> "nonobject"],
      [kind |-> "tokendata",
       body |-> [valid |-> FALSE, message |-> "Token no valido", token_data |-> "x"]] }
    \cup { [kind |-> "json", body |-> b] : b \in ValidateBodies }

\* ------------------------------------------------------------- remote client
\* what record_scan_api returns: a dict, or the parsed 200 body as it came
PyDict(d) == [isdict |-> TRUE, d |-> d]
PyOther == [isdict |-> FALSE]

record_scan_api(o) ==
    CASE o.kind = "json"       -> PyDict(o.body)
      [] o.kind = "nonobject"  -> PyOther
      [] o.kind = "status"     -> PyDict([success |-> FALSE, message |-> "Error API: 500"])
      [] o.kind = "timeout"    -> PyDict([success |-> FALSE, message |-> "Error: timeout"])
      [] o.kind = "connection" -> PyDict([success |-> FALSE, message |-> "Error: connection"])
      [] o.kind = "badjson"    -> PyDict([success |-> FALSE, message |-> "Error: bad json"])

validate_token_api(o) ==
    CASE o.kind = "json" ->
            LET data == o.body
                token_data == IF "token_data" \in DOMAIN data THEN Some(data.token_data) ELSE None
            IN  TokenValidation(
                    Get(data, "valid", FALSE),
                    Get(data, "message", ""),
                    IF token_data # None THEN Get(token_data[1], "estado", "") ELSE "",
                    Some(Get(data, "first_scan", FALSE)))
      [] o.kind = "status" ->
            TokenValidation(FALSE, "Error de API: 500", "ERROR", None)
      [] o.kind = "timeout" ->
            TokenValidation(FALSE, "Timeout: No se pudo conectar con el servidor", "ERROR", None)
      [] o.kind = "connection" ->
            TokenValidation(FALSE, "Error: No se pudo conectar con el servidor", "ERROR", None)
      [] o.kind \in {"badjson", "nonobject", "tokendata"} ->
            TokenValidation(FALSE, "Error inesperado", "ERROR", None)

\* -------------------------------------------------------------- dedup gate
scan_cooldown == 3

\* a gate that still drops when the cooldown has just elapsed
InCooldown_inclusive(token, current_time, last_token, last_time) ==
    /\ token = last_token
    /\ current_time - last_time <= scan_cooldown

\* a gate whose time comparison is turned around
InCooldown_inverted(token, current_time, last_token, last_time) ==
    /\ token = last_token
    /\ current_time - last_time > scan_cooldown

\* a gate that forgets to compare the payload
InCooldown_any_token(token, current_time, last_token, last_time) ==
    current_time - last_time < scan_cooldown

\* the test at the head of process_token: a repeat of the stored payload in cooldown
InCooldown(token, current_time, last_token, last_time) ==
    /\ token = last_token
    /\ current_time - last_time < scan_cooldown

\* an admission that refreshes the time only when the payload changes
AdmitSlot_stale_time(token, current_time, last_token, last_time) ==
    IF token = last_token THEN <<token, last_time>> ELSE <<token, current_time>>

\* an admission that leaves the slot as it was (written only later, if at all)
AdmitSlot_not_written(token, current_time, last_token, last_time) ==
    <<last_token, last_time>>

\* the slot (last_scanned_token, last_scan_time) after an admitted scan
AdmitSlot(token, current_time, last_token, last_time) == <<token, current_time>>

\* a drop that refreshes the stored time (cooldown counted from the last sighting)
DropSlot_refreshes_time(token, current_time, last_token, last_time) ==
    <<last_token, current_time>>

\* the slot after a dropped scan: process_token returns None before touching it
DropSlot(token, current_time, last_token, last_time) == <<last_token, last_time>>

\* ------------------------------------------------------- record, then validate
\* process_token after record_scan_api returned a dict without a true "success"
RecordFailed(d) ==
    TokenValidation(FALSE, Get(d, "message", "Error al registrar asistencia"),
                    "ERROR_ASISTENCIA", Some(FALSE))

MSG_FIRST == "Primer registro de asistencia: HH:MM:SS"
MSG_ADDITIONAL == "Registro de asistencia adicional: HH:MM:SS"

\* a rewrite that does not look at validation.valid
Finish_always_recorded(validation, d) ==
    [validation EXCEPT
        !.message = IF Truthy(d, "is_first_scan") THEN MSG_FIRST ELSE MSG_ADDITIONAL,
        !.estado = "ASISTENCIA_REGISTRADA"]

\* a rewrite that picks the message by the first_scan flag of the validate answer
Finish_by_validate_flag(validation, d) ==
    IF validation.valid
    THEN [validation EXCEPT
             !.message = IF validation.first_scan = Some(TRUE)
                         THEN MSG_FIRST ELSE MSG_ADDITIONAL,
             !.estado = "ASISTENCIA_REGISTRADA"]
    ELSE validation

\* a rewrite that turns every invalid answer into state ERROR
Finish_normalises_invalid(validation, d) ==
    IF validation.valid
    THEN [validation EXCEPT
             !.message = IF Truthy(d, "is_first_scan") THEN MSG_FIRST ELSE MSG_ADDITIONAL,
             !.estado = "ASISTENCIA_REGISTRADA"]
    ELSE [validation EXCEPT !.estado = "ERROR"]

\* process_token after validate_token_api returned `validation`
Finish(validation, d) ==
    IF validation.valid
    THEN [validation EXCEPT
             !.message = IF Truthy(d, "is_first_scan") THEN MSG_FIRST ELSE MSG_ADDITIONAL,
             !.estado = "ASISTENCIA_REGISTRADA"]
    ELSE validation

\* ------------------------------------------------------ pipeline collaborators
\* result of a payload the local policy filter rejects
RejectedLocal == TokenValidation(FALSE, "Codigo rechazado localmente", "REJECTED_LOCAL", None)

\* one row of the audit store
AccessLogRecord(payload, result) ==
    [payload |-> payload, resultKind |-> result.estado, accessGranted |-> result.valid]

\* a protocol with the two bytes exchanged
ActuatorByte_inverted(granted) == IF granted THEN "0" ELSE "1"

\* the byte the actuator protocol sends for a decision
ActuatorByte(granted) == IF granted THEN "1" ELSE "0"

\* -------------------------------------------------------------------- state
VARIABLES
    pc,                          \* where the acquisition loop stands
    clock,                       \* time.time()
    data,                        \* the payload decoded from the current frame
    last_scanned_token,          \* dedup slot: payload
    last_scan_time,              \* dedup slot: time of its admission
    scan_record_result,          \* Optional: the dict record_scan_api returned
    new_validation,              \* Optional: the TokenValidation of the scan in flight
    current_display_validation,  \* Optional: display state
    info_display_time,           \* when the display state was set
    running,                     \* QRScanner.running
    cap_open,                    \* the camera is held
    exit_cause,                  \* why the loop ended ("" while it runs)
    audit_len,                   \* rows in the audit store
    audit_last,                  \* Optional: its last row
    serial_len,                  \* bytes written to the actuator channel
    serial_last,                 \* Optional: the last byte written
    calls,                       \* remote calls issued for the scan in flight, in order
    n_scans,                     \* payloads handed to process_token so far
    n_admitted,                  \* of those, the ones the dedup gate admitted
    hist,                        \* the last three gate decisions
    esp32_open,                  \* lector_qr.py: the serial channel esp32 is held
    pending                      \* lector_qr.py: codes of the frame not yet handled

vars == <<pc, clock, data, last_scanned_token, last_scan_time, scan_record_result,
          new_validation, current_display_validation, info_display_time, running,
          cap_open, exit_cause, audit_len, audit_last, serial_len, serial_last,
          calls, n_scans, n_admitted, hist, esp32_open, pending>>

slot_vars == <<last_scanned_token, last_scan_time>>
display_vars == <<current_display_validation, info_display_time>>
sink_vars == <<audit_len, audit_last, serial_len, serial_last>>
loop_vars == <<running, cap_open, exit_cause>>
scan_vars == <<data, scan_record_result, new_validation, calls>>
lector_vars == <<esp32_open, pending>>

\* time.time() when the loop starts: later than the initial last_scan_time (0) by
\* at least the cooldown, as any real epoch time is
StartTime == scan_cooldown

\* QRScanner.__init__, then run() up to the head of the loop
Init ==
    /\ pc = "loop"
    /\ clock = StartTime
    /\ data = <<>>
    /\ last_scanned_token = <<>>
    /\ last_scan_time = 0
    /\ scan_record_result = None
    /\ new_validation = None
    /\ current_display_validation = None
    /\ info_display_time = 0
    /\ running = TRUE
    /\ cap_open = TRUE
    /\ exit_cause = ""
    /\ audit_len = 0
    /\ audit_last = None
    /\ serial_len = 0
    /\ serial_last = None
    /\ calls = <<>>
    /\ n_scans = 0
    /\ n_admitted = 0
    /\ hist = <<>>
    /\ esp32_open = FALSE
    /\ pending = <<>>

\* the last three entries of h followed by e
Recent(h, e) == IF Len(h) < 3 THEN Append(h, e) ELSE Append(Tail(h), e)

\* process_token has returned: its locals are gone
EndScan ==
    /\ data' = <<>>
    /\ scan_record_result' = None
    /\ new_validation' = None
    /\ calls' = <<>>

\* cleanup(), reached from the finally clause of run()
Cleanup(cause) ==
    /\ pc' = "done"
    /\ running' = FALSE
    /\ cap_open' = FALSE
    /\ exit_cause' = cause

\* the wall clock advances, wherever the loop stands (the remote calls block);
\* runs in which the system clock is set back are not followed
Tick ==
    /\ pc # "done"
    /\ clock < StartTime + MaxTime
    /\ clock' = clock + 1
    /\ UNCHANGED <<pc, scan_vars, slot_vars, display_vars, loop_vars, sink_vars,
                   n_scans, n_admitted, hist>>
    /\ UNCHANGED lector_vars

\* cap.read() returned ret = False: break, then cleanup
CameraFail ==
    /\ pc = "loop"
    /\ Cleanup("camera")
    /\ UNCHANGED <<clock, scan_vars, slot_vars, display_vars, sink_vars,
                   n_scans, n_admitted, hist>>
    /\ UNCHANGED lector_vars

\* the 'q' key: break, then cleanup
KeyQuit ==
    /\ pc = "loop"
    /\ Cleanup("quit")
    /\ UNCHANGED <<clock, scan_vars, slot_vars, display_vars, sink_vars,
                   n_scans, n_admitted, hist>>
    /\ UNCHANGED lector_vars

\* KeyboardInterrupt, delivered wherever the loop stands
Interrupt ==
    /\ pc # "done"
    /\ Cleanup("interrupt")
    /\ UNCHANGED <<clock, scan_vars, slot_vars, display_vars, sink_vars,
                   n_scans, n_admitted, hist>>
    /\ UNCHANGED lector_vars

\* a frame in which detectAndDecode found the payload d: process_token(d) up to
\* the dedup gate
Scan(d) ==
    /\ pc = "loop"
    /\ running
    /\ n_scans < MaxScans
    /\ n_scans' = n_scans + 1
    /\ LET dup == InCooldown(d, clock, last_scanned_token, last_scan_time)
           slot == AdmitSlot(d, clock, last_scanned_token, last_scan_time)
           kept == DropSlot(d, clock, last_scanned_token, last_scan_time)
       IN  /\ hist' = Recent(hist, [token |-> d, now |-> clock, admitted |-> ~dup])
           /\ IF dup
              THEN /\ pc' = "loop"
                   /\ last_scanned_token' = kept[1]
                   /\ last_scan_time' = kept[2]
                   /\ UNCHANGED <<data, n_admitted>>
              ELSE /\ data' = d
                   /\ last_scanned_token' = slot[1]
                   /\ last_scan_time' = slot[2]
                   /\ n_admitted' = n_admitted + 1
                   /\ pc' = "filter"
    /\ UNCHANGED <<clock, scan_record_result, new_validation, calls, display_vars,
                   loop_vars, sink_vars>>
    /\ UNCHANGED lector_vars

\* the local policy filter, applied to an admitted payload
LocalFilter ==
    /\ pc = "filter"
    /\ IF es_codigo_rechazado(data)
       THEN /\ new_validation' = Some(RejectedLocal)
            /\ pc' = "deliver"
       ELSE /\ pc' = "record"
            /\ UNCHANGED new_validation
    /\ UNCHANGED <<clock, data, scan_record_result, calls, slot_vars, display_vars,
                   loop_vars, sink_vars, n_scans, n_admitted, hist>>
    /\ UNCHANGED lector_vars

\* process_token: record_scan_api(token) and the test of its "success"
RecordCall(o) ==
    /\ pc = "record"
    /\ calls' = Append(calls, "record")
    /\ LET r == record_scan_api(o)
       IN  IF ~r.isdict
           THEN \* .get on a value that is no dict: AttributeError leaves process_token
                \* and run() catches it, logs it and cleans up
                /\ Cleanup("exception")
                /\ UNCHANGED <<scan_record_result, new_validation>>
           ELSE /\ scan_record_result' = Some(r.d)
                /\ UNCHANGED loop_vars
                /\ IF ~Truthy(r.d, "success")
                   THEN /\ new_validation' = Some(RecordFailed(r.d))
                        /\ pc' = "deliver"
                   ELSE /\ pc' = "validate"
                        /\ UNCHANGED new_validation
    /\ UNCHANGED <<clock, data, slot_vars, display_vars, sink_vars, n_scans, n_admitted, hist>>
    /\ UNCHANGED lector_vars

\* process_token: validate_token_api(token) and the final result
ValidateCall(o) ==
    /\ pc = "validate"
    /\ calls' = Append(calls, "validate")
    /\ new_validation' = Some(Finish(validate_token_api(o), scan_record_result[1]))
    /\ pc' = "deliver"
    /\ UNCHANGED <<clock, data, scan_record_result, slot_vars, display_vars, loop_vars,
                   sink_vars, n_scans, n_admitted, hist>>
    /\ UNCHANGED lector_vars

\* the audit logger appends the row of the result
AppendAudit ==
    /\ audit_len' = audit_len + 1
    /\ audit_last' = Some(AccessLogRecord(data, new_validation[1]))

\* the actuator adapter writes the byte of the decision
SignalActuator ==
    /\ serial_len' = serial_len + 1
    /\ serial_last' = Some(ActuatorByte(new_validation[1].valid))

\* run(): the result of process_token becomes the display state
UpdateDisplay ==
    /\ current_display_validation' = new_validation
    /\ info_display_time' = clock

\* the result of the scan reaches the audit store, the actuator and the display
Deliver ==
    /\ pc = "deliver"
    /\ AppendAudit
    /\ SignalActuator
    /\ UpdateDisplay
    /\ EndScan
    /\ pc' = "loop"
    /\ UNCHANGED <<clock, slot_vars, loop_vars, n_scans, n_admitted, hist>>
    /\ UNCHANGED lector_vars

Next ==
    \/ Tick
    \/ \E d \in Payloads : Scan(d)
    \/ CameraFail
    \/ KeyQuit
    \/ Interrupt
    \/ LocalFilter
    \/ \E o \in RecordOutcomes : RecordCall(o)
    \/ \E o \in ValidateOutcomes : ValidateCall(o)
    \/ Deliver

Spec == Init /\ [][Next]_vars

\* ------------------------------------------------------------- lector_qr.py
\* what the frames of the lector loop decode to: one or two QR codes
Frames == {<<a>> : a \in Payloads} \cup {<<a, b>> : a, b \in Payloads}

\* the state of QRScanner, which lector_qr.py does not have
scanner_only == <<clock, slot_vars, scan_record_result, new_validation, display_vars,
                  running, audit_len, audit_last, calls, n_admitted, hist>>

\* lector_qr.py before serial.Serial(...) is called
LectorInit ==
    /\ pc = "lector_start"
    /\ clock = StartTime
    /\ data = <<>>
    /\ last_scanned_token = <<>>
    /\ last_scan_time = 0
    /\ scan_record_result = None
    /\ new_validation = None
    /\ current_display_validation = None
    /\ info_display_time = 0
    /\ running = FALSE
    /\ cap_open = FALSE
    /\ exit_cause = ""
    /\ audit_len = 0
    /\ audit_last = None
    /\ serial_len = 0
    /\ serial_last = None
    /\ calls = <<>>
    /\ n_scans = 0
    /\ n_admitted = 0
    /\ hist = <<>>
    /\ esp32_open = FALSE
    /\ pending = <<>>

\* serial.Serial(puerto_serial, baud_rate) succeeds, then cv2.VideoCapture(1)
LectorSerialOpen ==
    /\ pc = "lector_start"
    /\ esp32_open' = TRUE
    /\ cap_open' = TRUE
    /\ pc' = "lector_loop"
    /\ UNCHANGED <<scanner_only, data, exit_cause, serial_len, serial_last, n_scans, pending>>

\* serial.Serial(...) raises: the except clause prints the error and calls exit()
LectorSerialFail ==
    /\ pc = "lector_start"
    /\ pc' = "lector_done"
    /\ exit_cause' = "serial"
    /\ UNCHANGED <<scanner_only, data, cap_open, serial_len, serial_last, n_scans,
                   lector_vars>>

\* cap.read() returned a frame in which decode() found the codes `codes`
LectorFrame(codes) ==
    /\ pc = "lector_loop"
    /\ n_scans + Len(codes) <= MaxScans
    /\ pending' = codes
    /\ pc' = "lector_codes"
    /\ UNCHANGED <<scanner_only, data, cap_open, exit_cause, serial_len, serial_last,
                   n_scans, esp32_open>>

\* the body of `for qr in decode(...)`: one byte for the code, by the local filter
LectorCode ==
    /\ pc = "lector_codes"
    /\ pending # <<>>
    /\ data' = Head(pending)
    /\ serial_len' = serial_len + 1
    /\ serial_last' = Some(ActuatorByte(~es_codigo_rechazado(Head(pending))))
    /\ n_scans' = n_scans + 1
    /\ pending' = Tail(pending)
    /\ pc' = IF Tail(pending) = <<>> THEN "lector_loop" ELSE "lector_codes"
    /\ UNCHANGED <<scanner_only, cap_open, exit_cause, esp32_open>>

\* esp32.write raises (the device went away): nothing catches it, the script dies
\* before cap.release() and esp32.close()
LectorWriteError ==
    /\ pc = "lector_codes"
    /\ pending # <<>>
    /\ pc' = "lector_done"
    /\ exit_cause' = "exception"
    /\ UNCHANGED <<scanner_only, data, cap_open, serial_len, serial_last, n_scans,
                   lector_vars>>

\* the ESC key: break, then cap.release(), destroyAllWindows(), esp32.close()
LectorEsc ==
    /\ pc = "lector_loop"
    /\ cap_open' = FALSE
    /\ esp32_open' = FALSE
    /\ pc' = "lector_done"
    /\ exit_cause' = "esc"
    /\ UNCHANGED <<scanner_only, data, serial_len, serial_last, n_scans, pending>>

\* KeyboardInterrupt in the loop: nothing catches it, the release calls are skipped
LectorInterrupt ==
    /\ pc \in {"lector_loop", "lector_codes"}
    /\ pc' = "lector_done"
    /\ exit_cause' = "interrupt"
    /\ UNCHANGED <<scanner_only, data, cap_open, serial_len, serial_last, n_scans,
                   lector_vars>>

LectorNext ==
    \/ LectorSerialOpen
    \/ LectorSerialFail
    \/ \E codes \in Frames : LectorFrame(codes)
    \/ LectorCode
    \/ LectorWriteError
    \/ LectorEsc
    \/ LectorInterrupt

LectorSpec == LectorInit /\ [][LectorNext]_vars

\* ------------------------------------------------------------------ claims
Last(h) == h[Len(h)]

\* the step in which the loop hands a decoded payload to process_token
IsScanStep == pc = "loop" /\ n_scans' = n_scans + 1

\* the payload of that step
Scanned == Last(hist').token

\* the result process_token has returned for the scan in flight
Returned == pc = "deliver"

\* C1: for an admitted payload that reaches the remote phase, record is called
\* before validate, validate is called iff record reported success, and a result
\* in state ERROR_ASISTENCIA means validate was never called.
C1_RecordThenValidate ==
    (Returned /\ calls # <<>>) =>
        /\ calls \in {<<"record">>, <<"record", "validate">>}
        /\ (calls = <<"record", "validate">>) <=> Truthy(scan_record_result[1], "success")
        /\ new_validation[1].estado = "ERROR_ASISTENCIA" => calls = <<"record">>

\* C2: the gate drops a scan iff the payload equals the stored one and less than 3
\* time units have passed since the stored time; every other scan is admitted.
C2_GateDropsIffRepeatInCooldown ==
    [][IsScanStep =>
         ((pc' = "loop" /\ ~Last(hist').admitted)
            <=> (Scanned = last_scanned_token /\ clock - last_scan_time < 3))
       /\ (pc' = "filter" <=> Last(hist').admitted)]_vars

\* C2 witness: a payload admitted, dropped one unit later, and admitted again when
\* exactly 3 units have passed since its admission
C2_Witness ==
    /\ Len(hist) = 3
    /\ hist[1].token = hist[2].token /\ hist[2].token = hist[3].token
    /\ hist[1].admitted /\ ~hist[2].admitted /\ hist[3].admitted
    /\ hist[3].now - hist[1].now = 3

\* an admission of payload d still in hist, followed by scans of d only, whose
\* cooldown window contains the time t
OpenWindow(d, t) ==
    \E i \in DOMAIN hist :
        /\ hist[i].admitted
        /\ \A j \in i..Len(hist) : hist[j].token = d
        /\ t - hist[i].now < 3

\* C3: a payload scanned again inside the cooldown window of its admission, with no
\* other payload in between, is dropped: no remote call, no audit row, no actuator
\* byte, no change of the display state or its time.
C3_RepeatDroppedEntirely ==
    [][(IsScanStep /\ OpenWindow(Scanned, clock)) =>
         /\ ~Last(hist').admitted
         /\ pc' = "loop"
         /\ calls' = <<>> /\ new_validation' = None
         /\ UNCHANGED <<audit_len, audit_last, serial_len, serial_last,
                        current_display_validation, info_display_time>>]_vars

\* C3 witness: a delivered scan followed by a dropped repeat of its payload
C3_Witness ==
    /\ pc = "loop"
    /\ Len(hist) = 2
    /\ hist[1].token = hist[2].token
    /\ hist[1].admitted /\ ~hist[2].admitted
    /\ hist[2].now - hist[1].now < 3
    /\ audit_len = 1 /\ serial_len = 1
    /\ current_display_validation # None

\* C4: in consecutive scans A, B, A with A # B, B and the second A are admitted
\* whatever the times, and so is the first A when it opens the run.
C4_SingleSlotAdmitsABA ==
    \A k \in 1..(Len(hist) - 2) :
        (hist[k].token = hist[k + 2].token /\ hist[k].token # hist[k + 1].token) =>
            /\ hist[k + 1].admitted
            /\ hist[k + 2].admitted
            /\ n_scans = 3 => hist[k].admitted

\* C4 witness: A, B, A all admitted inside one cooldown window
C4_Witness ==
    /\ Len(hist) = 3
    /\ hist[1].token = hist[3].token /\ hist[1].token # hist[2].token
    /\ hist[1].admitted /\ hist[2].admitted /\ hist[3].admitted
    /\ hist[3].now - hist[1].now < 3

\* C5: the slot holds exactly the payload and time of the latest admitted scan, in
\* every state that follows the admission, whatever the remote calls answered.
C5_SlotIsLatestAdmission ==
    \A i \in DOMAIN hist :
        (hist[i].admitted /\ \A j \in (i + 1)..Len(hist) : ~hist[j].admitted) =>
            /\ last_scanned_token = hist[i].token
            /\ last_scan_time = hist[i].now

\* C5 witness: the same payload admitted a second time, later, after a record call
\* that failed; the slot carries the time of the second admission
C5_Witness ==
    /\ Len(hist) = 2
    /\ hist[1].admitted /\ hist[2].admitted
    /\ hist[1].token = hist[2].token
    /\ hist[2].now > hist[1].now
    /\ pc = "deliver" /\ new_validation[1].estado = "ERROR_ASISTENCIA"
    /\ last_scan_time = hist[2].now

\* the payloads whose trimmed, case-folded form starts with WIFI: or whose
\* case-folded form contains an image extension
C6_Rejectable == {P_WIFI, P_PNG}

Settled == pc = "loop" \/ (pc = "done" /\ exit_cause # "interrupt")

\* C7: one actuator byte per admitted payload, equal to the valid flag of its result.
C7_OneActuatorBytePerAdmittedScan ==
    /\ Settled => serial_len = n_admitted
    /\ (pc = "loop" /\ n_admitted > 0) =>
        serial_last = Some(IF current_display_validation[1].valid THEN "1" ELSE "0")

\* C8: one audit row per admitted payload, whatever the outcome.
C8_OneAuditRowPerAdmittedScan ==
    Settled => audit_len = n_admitted

\* C9: a returned result is valid iff its state is ASISTENCIA_REGISTRADA.
C9_ValidIffAttendanceRecorded ==
    Returned => (new_validation[1].valid <=> new_validation[1].estado = "ASISTENCIA_REGISTRADA")

\* C10: no outcome of a remote call leaves process_token as an exception; every one
\* ends in a returned result.
C10_NoExceptionEscapes ==
    /\ exit_cause # "exception"
    /\ Returned => new_validation # None

\* a scan is being processed: process_token has admitted it and not yet returned
InFlight == pc \in {"filter", "record", "validate", "deliver"}

\* C11: no failure of a scan in flight ends the loop; while a scan is processed the
\* loop ends only by external cancellation.
C11_ScanFailureKeepsLoopRunning ==
    [][(InFlight /\ pc' = "done") => exit_cause' = "interrupt"]_vars

\* C12: the record call either reports success and validate follows, or the scan
\* returns ERROR_ASISTENCIA, not valid, with the message of the failure, and validate
\* is not called; cancellation aside, the record step has no third outcome.
C12_RecordFailureShortCircuits ==
    [][(pc = "record" /\ pc' # "record" /\ exit_cause' # "interrupt") =>
         \/ /\ pc' = "validate"
            /\ Truthy(scan_record_result'[1], "success")
         \/ /\ pc' = "deliver"
            /\ ~Truthy(scan_record_result'[1], "success")
            /\ calls' = <<"record">>
            /\ new_validation'[1].estado = "ERROR_ASISTENCIA"
            /\ ~new_validation'[1].valid
            /\ new_validation'[1].message =
                   Get(scan_record_result'[1], "message", "Error al registrar asistencia")]_vars

\* the outcomes of the validate call that are a transport error, a timeout or a
\* status other than 200
C13_Failures == {o \in ValidateOutcomes : o.kind \in {"status", "timeout", "connection"}}

\* C13: after a successful record, a validate call that fails by transport error,
\* timeout or non-200 status gives a result in state ERROR, not valid, and the state
\* is not rewritten to ASISTENCIA_REGISTRADA.
C13_ValidateFailureIsError ==
    [][\A o \in C13_Failures :
         ValidateCall(o) =>
             /\ Truthy(scan_record_result[1], "success")
             /\ new_validation'[1].estado = "ERROR"
             /\ new_validation'[1].estado # "ASISTENCIA_REGISTRADA"
             /\ ~new_validation'[1].valid
             /\ new_validation'[1].message = validate_token_api(o).message]_vars

\* C13 witness: record succeeded, validate timed out, the result is ERROR
C13_Witness ==
    /\ Returned
    /\ calls = <<"record", "validate">>
    /\ Truthy(scan_record_result[1], "success")
    /\ new_validation[1].estado = "ERROR"
    /\ ~new_validation[1].valid
    /\ new_validation[1].message = "Timeout: No se pudo conectar con el servidor"

\* C14: when validate returns valid, the result is ASISTENCIA_REGISTRADA and its
\* message is the first-registration text iff the record answer's is_first_scan is
\* true, the additional-registration text otherwise, whatever the validate answer's
\* first_scan says.
C14_MessageFollowsRecordFlag ==
    [][\A o \in ValidateOutcomes :
         (ValidateCall(o) /\ validate_token_api(o).valid) =>
             /\ new_validation'[1].valid
             /\ new_validation'[1].estado = "ASISTENCIA_REGISTRADA"
             /\ new_validation'[1].first_scan = validate_token_api(o).first_scan
             /\ new_validation'[1].message =
                    IF Truthy(scan_record_result[1], "is_first_scan")
                    THEN "Primer registro de asistencia: HH:MM:SS"
                    ELSE "Registro de asistencia adicional: HH:MM:SS"]_vars

\* C14 witness: record said first scan, validate said not first, and the message is
\* the first-registration one
C14_Witness ==
    /\ Returned
    /\ calls = <<"record", "validate">>
    /\ Truthy(scan_record_result[1], "is_first_scan")
    /\ new_validation[1].first_scan = Some(FALSE)
    /\ new_validation[1].valid
    /\ new_validation[1].estado = "ASISTENCIA_REGISTRADA"
    /\ new_validation[1].message = "Primer registro de asistencia: HH:MM:SS"

\* the 200 answers of validate whose valid is false or absent
C15_Invalid200 ==
    {o \in ValidateOutcomes : o.kind \in {"json", "tokendata"} /\ ~Get(o.body, "valid", FALSE)}

\* the state such an answer supplies: token_data.estado, empty when there is none
C15_RemoteEstado(o) ==
    IF o.kind = "json" /\ "token_data" \in DOMAIN o.body
    THEN Get(o.body.token_data, "estado", "")
    ELSE ""

\* C15 as stated: for every 200 answer with valid false the result carries the
\* remote's message and state unchanged.
C15_InvalidKeepsRemoteStateAndMessage ==
    [][\A o \in C15_Invalid200 :
         ValidateCall(o) =>
             /\ ~new_validation'[1].valid
             /\ new_validation'[1].message = Get(o.body, "message", "")
             /\ new_validation'[1].estado = C15_RemoteEstado(o)]_vars

\* C15 amended: that holds for the answers whose token_data is absent or an object,
\* the state being empty when token_data or its estado is absent; an answer whose
\* token_data is any other non-empty value gives state ERROR and the message of the
\* exception instead of the remote's.
C15_InvalidKeepsWellFormedAnswer ==
    [][\A o \in C15_Invalid200 :
         ValidateCall(o) =>
             /\ ~new_validation'[1].valid
             /\ o.kind = "json" =>
                    /\ new_validation'[1].message = Get(o.body, "message", "")
                    /\ new_validation'[1].estado = C15_RemoteEstado(o)
             /\ o.kind = "tokendata" =>
                    /\ new_validation'[1].message = "Error inesperado"
                    /\ new_validation'[1].estado = "ERROR"]_vars

\* C15 witness: a valid = false answer without token_data was returned with the
\* remote's message and the empty state
C15_Witness ==
    /\ Returned
    /\ calls = <<"record", "validate">>
    /\ ~new_validation[1].valid
    /\ new_validation[1].message = "Token no valido"
    /\ new_validation[1].estado = ""

\* C16: the step that ends an admitted scan, cancellation aside, stores that scan's
\* result in the display state with the current time; no other step changes the
\* display state.
C16_DisplayFollowsEveryAdmittedScan ==
    [][IF InFlight /\ pc' \in {"loop", "done"} /\ exit_cause' # "interrupt"
       THEN /\ new_validation # None
            /\ current_display_validation' = new_validation
            /\ info_display_time' = clock'
       ELSE UNCHANGED display_vars]_vars

\* C17: when lector_qr.py has ended, by whatever path, the camera and the serial
\* channel it opened are released.
C17_ResourcesReleasedOnEveryExit ==
    pc = "lector_done" => (~cap_open /\ ~esp32_open)

\* C18: a serial channel that fails to open does not end lector_qr.py.
C18_SerialFailureKeepsPipeline ==
    ~(pc = "lector_done" /\ exit_cause = "serial")

\* C19: the slot is written by the admission, before any remote call, and the remote
\* calls leave it alone; so the payload of a scan that ended in ERROR_ASISTENCIA or
\* ERROR, scanned again within the cooldown, is dropped without a remote call.
C19_FailedScanStartsCooldown ==
    [][/\ (IsScanStep /\ Last(hist').admitted) =>
            /\ last_scanned_token' = Scanned
            /\ last_scan_time' = clock
            /\ calls' = <<>>
       /\ pc \in {"record", "validate"} => UNCHANGED slot_vars
       /\ (/\ IsScanStep
           /\ current_display_validation # None
           /\ current_display_validation[1].estado \in {"ERROR_ASISTENCIA", "ERROR"}
           /\ OpenWindow(Scanned, clock)) =>
              /\ ~Last(hist').admitted
              /\ pc' = "loop"
              /\ calls' = <<>>
              /\ UNCHANGED <<display_vars, n_admitted>>]_vars

\* C19 witness: a scan whose validate call failed, and its payload dropped when
\* scanned again within the cooldown
C19_Witness ==
    /\ pc = "loop"
    /\ Len(hist) = 2
    /\ hist[1].token = hist[2].token
    /\ hist[1].admitted /\ ~hist[2].admitted
    /\ hist[2].now - hist[1].now < 3
    /\ current_display_validation # None
    /\ current_display_validation[1].estado = "ERROR"
    /\ n_admitted = 1

\* scans i < j of one payload, both admitted, with only dropped scans of that payload
\* between them
C20_Consecutive(h, i, j) ==
    /\ i < j
    /\ h[i].admitted /\ h[j].admitted
    /\ \A k \in i..j : h[k].token = h[i].token
    /\ \A k \in (i + 1)..(j - 1) : ~h[k].admitted

\* C20: a dropped scan leaves the slot as it was; a scan of the stored payload is
\* admitted once 3 time units have passed since its admission, however recently it
\* was last seen; consecutive admissions of one payload are at least 3 apart.
C20_CooldownCountsFromAdmission ==
    [][IsScanStep =>
         /\ ~Last(hist').admitted => UNCHANGED slot_vars
         /\ (Scanned = last_scanned_token /\ clock - last_scan_time >= 3) =>
                Last(hist').admitted
         /\ \A i, j \in DOMAIN hist' :
                C20_Consecutive(hist', i, j) => hist'[j].now - hist'[i].now >= 3]_vars

\* C20 witness: a payload admitted, dropped 2 units later, and admitted 1 unit after
\* the drop, 3 units after its admission
C20_Witness ==
    /\ Len(hist) = 3
    /\ hist[1].token = hist[2].token /\ hist[2].token = hist[3].token
    /\ hist[1].admitted /\ ~hist[2].admitted /\ hist[3].admitted
    /\ hist[2].now - hist[1].now = 2
    /\ hist[3].now - hist[2].now = 1
    /\ last_scan_time = hist[3].now

\* the lector loop is handling the codes of a frame and does not die in this step
C21_HandlesCode == pc = "lector_codes" /\ pc' # "lector_done"

\* C21: in the lector loop every decoded code that is handled writes exactly one
\* byte, "0" iff es_codigo_rechazado of its text and "1" otherwise, also when the code
\* repeats the one before it; no other step writes, so bytes and handled codes are
\* equal in number; the path has no dedup slot and no remote call.
C21_OneByteForEachDecodedCode ==
    [][/\ C21_HandlesCode =>
            /\ data' = Head(pending)
            /\ pending' = Tail(pending)
            /\ serial_len' = serial_len + 1
            /\ serial_last' = Some(IF es_codigo_rechazado(data') THEN "0" ELSE "1")
       /\ ~C21_HandlesCode => UNCHANGED <<serial_len, serial_last>>
       /\ serial_len' = n_scans'
       /\ UNCHANGED <<calls, slot_vars, scan_record_result>>]_vars

\* C21 witness: after the code of an earlier frame, " wiFi:g" was written as "0",
\* and the same " wiFi:g", decoded a second time in the frame, is next
C21_Witness ==
    /\ pc = "lector_codes"
    /\ data = P_WIFI
    /\ pending = <<P_WIFI>>
    /\ es_codigo_rechazado(data)
    /\ serial_last = Some("0")
    /\ serial_len = 2 /\ n_scans = 2

====
